---- MODULE Spec2Model ----
(***************************************************************************)
(* A model of search_tool: the PlaywrightManager (session lifecycle), the  *)
(* BaseSearchEngine.search adapter with its concurrent page fetches, and   *)
(* SearchTool.search, which drives the manager as a scoped resource.        *)
(*                                                                         *)
(* The browser is an external collaborator.  It is modelled by the state   *)
(* of the objects the program holds handles to (engines, contexts, pages)  *)
(* and by one rule: an operation on an object whose engine has been        *)
(* stopped, or that has been closed, raises; an operation that raises has  *)
(* no effect.  Every other browser failure (a timeout, a crash) is an      *)
(* injected fault, drawn nondeterministically and counted in `faults`.     *)
(***************************************************************************)
EXTENDS Integers, Sequences, FiniteSets, TLC

\* ---------------------------------------------------------------- bounds
MaxResults == 21     \* largest num_results a run is configured with
MaxEngines == 2      \* engine instances started in one run
MaxContexts == 2     \* persistent contexts launched in one run
MaxAcquire == 2      \* largest n of a direct get_pages(n) call (SpecMgr)
MaxPageIds == 3      \* page handles created in one run of SpecMgr
MaxFaults == 2       \* injected browser failures in one run
ParseMaxResults == 3 \* largest num_results of a parser called on its own
UrlMaxResults == 2   \* largest num_results of a URL built on its own
MaxPageNo == 1       \* largest page_no a URL is built for
MaxBlocks == 3       \* blocks a selector matches on a page
MaxParsePages == 2   \* pages a parser is called on

\* ------------------------------------------------------ program constants
GoogleResultsPerPage == 10
BraveResultsPerPage == 20
DdgLoadSize == 10

Engines == {"google", "duckduckgo", "brave"}

Min(a, b) == IF a <= b THEN a ELSE b
Max(a, b) == IF a >= b THEN a ELSE b

\* pages_needed with the division taken before the decrement
PagesNeededOffByOne(e, r) ==
  CASE e = "google" -> (r \div GoogleResultsPerPage) + 1
    [] e = "brave" -> (r \div BraveResultsPerPage) + 1
    [] e = "duckduckgo" -> 1

\* pages_needed as each engine's constructor computes it
PagesNeeded(e, r) ==
  CASE e = "google" -> ((r - 1) \div GoogleResultsPerPage) + 1
    [] e = "brave" -> ((r - 1) \div BraveResultsPerPage) + 1
    [] e = "duckduckgo" -> 1

\* page ids of the model: enough for the largest search and for SpecMgr
NumPages == Max(MaxPageIds, PagesNeeded("google", MaxResults))

EngineIds == 1..MaxEngines
ContextIds == 1..MaxContexts
PageIds == 1..NumPages

VARIABLES
  \* PlaywrightManager fields (0 is None, otherwise the id of the object)
  playwright, context,
  \* the browser objects behind the handles
  engineState, ctxState, ctxEngine, pageState, pageCtx,
  \* operations the manager has invoked
  ctxCloseCalls, stopCalls, startsSinceClose, launchesSinceClose,
  \* injected failures so far
  faults,
  \* the last manager operation and the number of close() calls in a row
  op, closesInRow,
  \* what the last manager operation raised, and the steps its
  \* _ensure_playwright_and_browser went through
  mgr_exc, call_log,
  \* SearchTool._engines_registry
  registry,
  \* the locals of a parser's parse(page), and the lists parse has returned
  parser, parsed,
  \* the SearchConfig fields the URL depends on, and the URL last built
  config, search_url,
  \* what the command-line entry point printed last, and the status the
  \* process exited with (-1 while it runs)
  printed, exit_status,
  \* SearchTool / BaseSearchEngine.search
  search_engine, num_results, pc, pages_needed, pagesBound, pages, fate, task,
  loadsLeft, page_results, doneOrder, released, exc, web_results,
  adapter_result, outcome

mgrVars == <<playwright, context, engineState, ctxState, ctxEngine, pageState,
             pageCtx, ctxCloseCalls, stopCalls, startsSinceClose,
             launchesSinceClose, faults>>
opVars == <<op, closesInRow, mgr_exc, call_log>>
searchVars == <<registry, parser, parsed, config, search_url, printed,
                exit_status, search_engine, num_results, pc, pages_needed, pagesBound, pages,
                fate, task, loadsLeft, page_results, doneOrder, released, exc,
                web_results, adapter_result, outcome>>
vars == <<mgrVars, opVars, searchVars>>

\* ------------------------------------------------------------ the manager
\* The manager and the browser objects as one value, so that an operation
\* that calls another (get_pages calls _ensure_playwright_and_browser) is the
\* composition of the two.
World ==
  [playwright |-> playwright, context |-> context, engineState |-> engineState,
   ctxState |-> ctxState, ctxEngine |-> ctxEngine, pageState |-> pageState,
   pageCtx |-> pageCtx, ctxCloseCalls |-> ctxCloseCalls, stopCalls |-> stopCalls,
   startsSinceClose |-> startsSinceClose,
   launchesSinceClose |-> launchesSinceClose, faults |-> faults]

SetWorld(w) ==
  /\ playwright' = w.playwright
  /\ context' = w.context
  /\ engineState' = w.engineState
  /\ ctxState' = w.ctxState
  /\ ctxEngine' = w.ctxEngine
  /\ pageState' = w.pageState
  /\ pageCtx' = w.pageCtx
  /\ ctxCloseCalls' = w.ctxCloseCalls
  /\ stopCalls' = w.stopCalls
  /\ startsSinceClose' = w.startsSinceClose
  /\ launchesSinceClose' = w.launchesSinceClose
  /\ faults' = w.faults

\* PlaywrightManager.__init__
InitWorld ==
  [playwright |-> 0, context |-> 0,
   engineState |-> [e \in EngineIds |-> "unborn"],
   ctxState |-> [c \in ContextIds |-> "unborn"],
   ctxEngine |-> [c \in ContextIds |-> 0],
   pageState |-> [p \in PageIds |-> "unborn"],
   pageCtx |-> [p \in PageIds |-> 0],
   ctxCloseCalls |-> [c \in ContextIds |-> 0], stopCalls |-> 0,
   startsSinceClose |-> 0, launchesSinceClose |-> 0, faults |-> 0]

Unborn(f) == {x \in DOMAIN f : f[x] = "unborn"}
Fresh(f) == CHOOSE x \in Unborn(f) : \A y \in Unborn(f) : x <= y

\* a context the browser still serves: open, under a running engine
CtxUsable(w, c) == w.ctxState[c] = "open" /\ w.engineState[w.ctxEngine[c]] = "up"
\* context.pages
CtxPages(w, c) == {p \in PageIds : w.pageCtx[p] = c /\ w.pageState[p] = "open"}
\* a page the browser still serves
PageUsable(w, p) == w.pageState[p] = "open" /\ CtxUsable(w, w.pageCtx[p])

Fault(w) == [w EXCEPT !.faults = @ + 1]

\* async_playwright().start() succeeding
StartEngine(w) ==
  LET e == Fresh(w.engineState) IN
  [w EXCEPT !.playwright = e, !.engineState[e] = "up",
            !.startsSinceClose = @ + 1]

\* self._playwright.stop() succeeding: the driver and its browser are gone
StopEngine(w) ==
  [w EXCEPT !.engineState[w.playwright] = "down", !.stopCalls = @ + 1]

\* context.close() succeeding: the context and every page under it close
CloseContext(w, c) ==
  [w EXCEPT !.ctxState[c] = "closed",
            !.pageState = [p \in PageIds |->
                             IF w.pageCtx[p] = c /\ @[p] = "open"
                             THEN "closed" ELSE @[p]]]

StartFaults == {"none", "retry", "install", "start2"}
SetupFaults == {"none", "launch", "init_script", "launch_stopfail",
                "init_script_stopfail"}

\* the install run without check=True: a failed install goes unnoticed and
\* the start is retried
StartAttemptsUncheckedInstall(w, sf) ==
  CASE sf = "none" ->
         [w |-> StartEngine(w), exc |-> "none", log |-> <<"start_ok">>]
    [] sf \in {"retry", "install"} ->
         [w |-> StartEngine(Fault(w)), exc |-> "none",
          log |-> <<"start_fail",
                    IF sf = "retry" THEN "install_ok" ELSE "install_fail",
                    "start_ok">>]
    [] sf = "start2" ->
         [w |-> Fault(w), exc |-> "PlaywrightError",
          log |-> <<"start_fail", "install_ok", "start_fail">>]

\* the try statement of the first block: start; on a failure install the
\* dependencies and start again; a failure of either raises PlaywrightError
\*   sf = "none"    the start succeeds
\*   sf = "retry"   the start fails, the install succeeds, the retry succeeds
\*   sf = "install" the start fails, the install fails
\*   sf = "start2"  the start and, after the install, the retry fail
StartAttempts(w, sf) ==
  CASE sf = "none" ->
         [w |-> StartEngine(w), exc |-> "none", log |-> <<"start_ok">>]
    [] sf = "retry" ->
         [w |-> StartEngine(Fault(w)), exc |-> "none",
          log |-> <<"start_fail", "install_ok", "start_ok">>]
    [] sf = "install" ->
         [w |-> Fault(w), exc |-> "PlaywrightError",
          log |-> <<"start_fail", "install_fail">>]
    [] sf = "start2" ->
         [w |-> Fault(w), exc |-> "PlaywrightError",
          log |-> <<"start_fail", "install_ok", "start_fail">>]

\* the first block without its `is None` test: it starts an engine whenever
\* one more can be started
EnsureStartUnguarded(w, sf) ==
  IF Unborn(w.engineState) = {} THEN [w |-> w, exc |-> "none", log |-> <<>>]
  ELSE StartAttempts(w, sf)

\* _ensure_playwright_and_browser, first block: start the engine unless the
\* manager holds one
EnsureStart(w, sf) ==
  IF w.playwright # 0 THEN [w |-> w, exc |-> "none", log |-> <<>>]
  ELSE StartAttempts(w, sf)

\* the except clause of the second block: stop the engine and drop its
\* handle, then raise PlaywrightError.  A stop() that raises leaves the
\* clause at once: the handle stays and the exception of stop() propagates.
SetupFailed(w, stopFails, log) ==
  IF stopFails
    THEN [w |-> [Fault(w) EXCEPT !.stopCalls = @ + 1], exc |-> "Error",
          log |-> Append(log, "stop_fail")]
    ELSE [w |-> [StopEngine(w) EXCEPT !.playwright = 0],
          exc |-> "PlaywrightError", log |-> Append(log, "stop_ok")]

\* _ensure_playwright_and_browser, second block: launch the context and
\* inject the init script; on a failure stop the engine and drop its handle.
\*   cf = "launch", "init_script"    that call fails, the stop succeeds
\*   cf = "launch_stopfail", "init_script_stopfail"    and the stop fails too
EnsureContext(w, cf) ==
  IF w.context # 0 THEN [w |-> w, exc |-> "none", log |-> <<>>]
  ELSE
    LET c == Fresh(w.ctxState)
        launched == [w EXCEPT !.context = c, !.ctxState[c] = "open",
                              !.ctxEngine[c] = w.playwright,
                              !.launchesSinceClose = @ + 1]
    IN CASE cf = "none" ->
              [w |-> launched, exc |-> "none",
               log |-> <<"launch_ok", "init_script_ok">>]
         [] cf \in {"launch", "launch_stopfail"} ->
              SetupFailed(Fault(w), cf = "launch_stopfail", <<"launch_fail">>)
         [] cf \in {"init_script", "init_script_stopfail"} ->
              SetupFailed(Fault(launched), cf = "init_script_stopfail",
                          <<"launch_ok", "init_script_fail">>)

\* PlaywrightManager._ensure_playwright_and_browser
Ensure(w, f) ==
  LET a == EnsureStart(w, f.start) IN
  IF a.exc # "none" THEN a
  ELSE LET b == EnsureContext(a.w, f.setup) IN
       [w |-> b.w, exc |-> b.exc, log |-> a.log \o b.log]

\* the faults that can occur in a call of Ensure on w, and whether the call
\* stays within the model's bounds
EnsureFaults(w) ==
  {f \in [start : StartFaults, setup : SetupFaults] :
     /\ (w.playwright # 0 => f.start = "none")
     /\ (w.context # 0 \/ f.start \in {"install", "start2"} => f.setup = "none")}

FaultCost(f) ==
  (IF f.start = "none" THEN 0 ELSE 1)
  + (CASE f.setup = "none" -> 0
       [] f.setup \in {"launch", "init_script"} -> 1
       [] OTHER -> 2)

EnsureInBounds(w, f) ==
  /\ w.faults + FaultCost(f) <= MaxFaults
  /\ (w.playwright = 0 /\ f.start \in {"none", "retry"}
        => Unborn(w.engineState) # {})
  /\ (w.context = 0 /\ f.start \in {"none", "retry"}
        /\ f.setup \notin {"launch", "launch_stopfail"}
        => Unborn(w.ctxState) # {})

\* the loop of get_pages from iteration j on: new_page, then
\* set_viewport_size, then append.  pf.at is the iteration an injected
\* failure hits (0: none), pf.kind the call it hits.
RECURSIVE NewPages(_, _, _, _, _)
NewPages(w, j, n, pf, acc) ==
  IF j > n THEN [w |-> w, exc |-> "none", pages |-> acc]
  ELSE IF ~CtxUsable(w, w.context)
    THEN [w |-> w, exc |-> "PlaywrightError", pages |-> <<>>]
  ELSE IF pf.at = j /\ pf.kind = "new_page"
    THEN [w |-> Fault(w), exc |-> "PlaywrightError", pages |-> <<>>]
  ELSE
    LET p == Fresh(w.pageState)
        made == [w EXCEPT !.pageState[p] = "open", !.pageCtx[p] = w.context]
    IN IF pf.at = j /\ pf.kind = "viewport"
       THEN [w |-> Fault(made), exc |-> "PlaywrightError", pages |-> <<>>]
       ELSE NewPages(made, j + 1, n, pf, Append(acc, p))

\* PlaywrightManager.get_pages
GetPages(w, n, f, pf) ==
  LET a == Ensure(w, f) IN
  IF a.exc # "none"
    THEN [w |-> a.w, exc |-> a.exc, pages |-> <<>>, log |-> a.log]
  ELSE LET g == NewPages(a.w, 1, n, pf, <<>>) IN
       [w |-> g.w, exc |-> g.exc, pages |-> g.pages, log |-> a.log]

PageFaults(n) == [at : 0..n, kind : {"new_page", "viewport"}]

GetPagesInBounds(w, n, f, pf) ==
  /\ EnsureInBounds(w, f)
  /\ (pf.at = 0 => pf.kind = "new_page")
  /\ w.faults + FaultCost(f) + (IF pf.at = 0 THEN 0 ELSE 1) <= MaxFaults
  /\ Cardinality(Unborn(w.pageState)) >= n

ClosePageFaults == {"none", "page_close", "ctx_close"}

\* close_page without the test of len(context.pages): it closes the context
\* with every page it closes
ClosePageAlwaysClosesContext(w, p, cpf) ==
  IF w.pageState[p] # "open" THEN w
  ELSE
    LET c == w.pageCtx[p]
        closed == [w EXCEPT !.pageState[p] = "closed"]
    IN IF ~CtxUsable(w, c) THEN w
       ELSE IF cpf = "page_close" THEN Fault(w)
       ELSE IF cpf = "ctx_close"
         THEN [Fault(closed) EXCEPT !.ctxCloseCalls[c] = @ + 1]
       ELSE [CloseContext(closed, c) EXCEPT !.ctxCloseCalls[c] = @ + 1]

\* PlaywrightManager.close_page
ClosePage(w, p, cpf) ==
  IF w.pageState[p] # "open" THEN w
  ELSE
    LET c == w.pageCtx[p]
        closed == [w EXCEPT !.pageState[p] = "closed"]
    IN IF ~CtxUsable(w, c) THEN w
       ELSE IF cpf = "page_close" THEN Fault(w)
       ELSE IF CtxPages(closed, c) # {} THEN closed
       ELSE IF cpf = "ctx_close"
         THEN [Fault(closed) EXCEPT !.ctxCloseCalls[c] = @ + 1]
       ELSE [CloseContext(closed, c) EXCEPT !.ctxCloseCalls[c] = @ + 1]

ClosePageInBounds(w, p, cpf) ==
  /\ w.pageState[p] # "unborn"
  /\ (cpf # "none" => /\ w.faults < MaxFaults
                      /\ PageUsable(w, p)
                      /\ (cpf = "ctx_close" => CtxPages(w, w.pageCtx[p]) = {p}))

CloseFaults == [ctx : BOOLEAN, stop : BOOLEAN]

\* the first block without `self._context = None`
CloseCtxBlockKeepsHandle(w, fail) ==
  IF w.context = 0 THEN w
  ELSE
    LET c == w.context
        called == [w EXCEPT !.ctxCloseCalls[c] = @ + 1]
    IN IF fail THEN Fault(called)
       ELSE IF CtxUsable(w, c) THEN CloseContext(called, c)
       ELSE called

\* PlaywrightManager.close, first block: close the context, drop its handle
CloseCtxBlock(w, fail) ==
  IF w.context = 0 THEN w
  ELSE
    LET c == w.context
        called == [w EXCEPT !.ctxCloseCalls[c] = @ + 1, !.context = 0]
    IN IF fail THEN Fault(called)
       ELSE IF CtxUsable(w, c) THEN CloseContext(called, c)
       ELSE called

\* PlaywrightManager.close, second block: stop the engine, drop its handle
CloseStopBlock(w, fail) ==
  IF w.playwright = 0 THEN w
  ELSE IF fail THEN [Fault(w) EXCEPT !.stopCalls = @ + 1, !.playwright = 0]
  ELSE [StopEngine(w) EXCEPT !.playwright = 0]

\* close() with neither block guarded: the exception of a failing
\* context.close() leaves close() at once
CloseUnguarded(w, cf) ==
  IF cf.ctx /\ w.context # 0
    THEN [Fault(w) EXCEPT !.ctxCloseCalls[w.context] = @ + 1]
    ELSE [CloseStopBlock(CloseCtxBlock(w, FALSE), cf.stop) EXCEPT
            !.startsSinceClose = 0, !.launchesSinceClose = 0]

\* PlaywrightManager.close
Close(w, cf) ==
  [CloseStopBlock(CloseCtxBlock(w, cf.ctx), cf.stop) EXCEPT
     !.startsSinceClose = 0, !.launchesSinceClose = 0]

CloseInBounds(w, cf) ==
  /\ (cf.ctx => w.context # 0)
  /\ (cf.stop => w.playwright # 0)
  /\ w.faults + (IF cf.ctx THEN 1 ELSE 0) + (IF cf.stop THEN 1 ELSE 0)
       <= MaxFaults

\* ------------------------------------------------------------ the parsers
\* A candidate block of a results page, as far as parse looks at it:
\*   title  "none": no title element; "blank": its text strips to nothing
\*   url    "none": no link or no href; "relative": "/l/?u=..."; "malformed":
\*          "http:///" (starts with http, rejected by HttpUrl); "bracket":
\*          "http://[x" (rejected by HttpUrl, and urlparse raises ValueError
\*          on it); "valid": an absolute http(s) URL
\*   cite   the link holds the element the display URL is read from
\* DuckDuckGo reads title and href from one element, brave reads no cite.
Blocks(e) ==
  {b \in [title : {"none", "blank", "ok"},
          url : {"none", "relative", "malformed", "bracket", "valid"},
          cite : BOOLEAN] :
     /\ (e = "duckduckgo" /\ b.title = "none" => b.url = "none")
     /\ (e = "brave" \/ b.url = "none" => ~b.cite)}

\* href_attribute.startswith("http")
StartsWithHttp(u) == u \in {"malformed", "bracket", "valid"}
\* urllib.parse.urlparse(url) raises ValueError
UrlparseRaises(u) == u = "bracket"
\* HttpUrl(url) validates
HttpUrlValid(u) == u = "valid"

\* What the loop body does with a block: "raise" (an exception leaves
\* parse), "emit" (a WebResult is appended) or "drop".
BlockOutcome(e, b) ==
  LET url == IF e = "google" /\ ~StartsWithHttp(b.url) THEN "none" ELSE b.url
      \* the display URL falls back on urlparse, outside the guarded part
      parses == e # "brave" /\ url # "none" /\ ~b.cite
  IN IF parses /\ UrlparseRaises(url) THEN "raise"
     ELSE IF b.title = "ok" /\ url # "none" /\ HttpUrlValid(url) THEN "emit"
     ELSE "drop"

IdleParser ==
  [phase |-> "idle", container |-> FALSE, left |-> 0, enumerated |-> 0,
   valid |-> 0, position_counter |-> 1, web_results_list |-> <<>>]

\* the loop body counting every block it looks at, emitted or not
ParseStepCountsEveryBlock(e, r, st, b) ==
  LET seen == [st EXCEPT !.enumerated = @ + 1, !.left = @ - 1,
                         !.position_counter = @ + 1,
                         !.valid = IF b.title = "ok" /\ HttpUrlValid(b.url)
                                   THEN @ + 1 ELSE @]
      out == BlockOutcome(e, b)
  IN CASE out = "raise" -> [seen EXCEPT !.phase = "raised"]
       [] out = "drop" -> seen
       [] out = "emit" ->
            LET lst == Append(st.web_results_list,
                              [title |-> b.title, url |-> b.url,
                               position |-> st.position_counter])
            IN [seen EXCEPT !.web_results_list = lst,
                            !.left = IF Len(lst) >= r THEN 0 ELSE @]

\* One round of the loop over `elements`, on block b, with r the configured
\* num_results: st.enumerated counts the blocks looked at, st.valid those of
\* them with a title and a valid URL.
ParseStep(e, r, st, b) ==
  LET seen == [st EXCEPT !.enumerated = @ + 1, !.left = @ - 1,
                         !.valid = IF b.title = "ok" /\ HttpUrlValid(b.url)
                                   THEN @ + 1 ELSE @]
      out == BlockOutcome(e, b)
  IN CASE out = "raise" -> [seen EXCEPT !.phase = "raised"]
       [] out = "drop" -> seen
       [] out = "emit" ->
            LET lst == Append(st.web_results_list,
                              [title |-> b.title, url |-> b.url,
                               position |-> st.position_counter])
            IN [seen EXCEPT !.web_results_list = lst,
                            !.position_counter = @ + 1,
                            !.left = IF Len(lst) >= r THEN 0 ELSE @]

\* ------------------------------------------------------- the configuration
SafeSearch == {"off", "moderate", "on"}
TimeRange == {"any", "past_day", "past_week", "past_month", "past_year"}

\* SearchConfig(search_engine=..., num_results=...): the other fields at
\* their defaults
DefaultConfig ==
  [language |-> <<>>, region |-> <<>>, safe_search |-> "off",
   time_range |-> "any"]

\* ---------------------------------------------------- _build_search_url
\* A str is the sequence of its characters; <<>> is None or "".  The base of
\* a URL, which encodes nothing, is one element.
Languages == {<<>>, <<"e", "n">>, <<"e", "n", "-", "U", "S">>}
Regions == {<<>>, <<"u", "s">>}
Queries ==
  {<<"a">>, <<"a", " ", "b">>, <<"a", "&", "d", "f", "=", "y">>,
   <<"t", "b", "s", "=", "q", "d", "r", ":", "d">>}

Digit(d) == <<"0", "1", "2", "3", "4", "5", "6", "7", "8", "9">>[d + 1]
RECURSIVE IntToStr(_)
\* str(n), n >= 0
IntToStr(n) ==
  IF n < 10 THEN <<Digit(n)>>
  ELSE IntToStr(n \div 10) \o <<Digit(n % 10)>>

\* str.upper and str.lower, on the letters of Languages and Regions
UpperChar(ch) ==
  CASE ch = "u" -> "U" [] ch = "s" -> "S" [] ch = "e" -> "E" [] ch = "n" -> "N"
    [] OTHER -> ch
LowerChar(ch) ==
  CASE ch = "U" -> "u" [] ch = "S" -> "s" [] ch = "E" -> "e" [] ch = "N" -> "n"
    [] OTHER -> ch
Upper(str) == [k \in 1..Len(str) |-> UpperChar(str[k])]
Lower(str) == [k \in 1..Len(str) |-> LowerChar(str[k])]

\* str.split('-')[0]
RECURSIVE UpToDash(_)
UpToDash(str) ==
  IF str = <<>> \/ Head(str) = "-" THEN <<>>
  ELSE <<Head(str)>> \o UpToDash(Tail(str))

\* urllib.parse.quote_plus on one character: letters, digits and "_.-~" are
\* kept, a space becomes "+", anything else its percent escape
QuoteChar(ch) ==
  CASE ch = " " -> <<"+">>
    [] ch = ":" -> <<"%", "3", "A">>
    [] ch = "&" -> <<"%", "2", "6">>
    [] ch = "=" -> <<"%", "3", "D">>
    [] ch = "+" -> <<"%", "2", "B">>
    [] ch = "%" -> <<"%", "2", "5">>
    [] OTHER -> <<ch>>

RECURSIVE QuotePlus(_)
QuotePlus(str) ==
  IF str = <<>> THEN <<>> ELSE QuoteChar(Head(str)) \o QuotePlus(Tail(str))

\* urllib.parse.urlencode(query_params): the items of the dict in insertion
\* order, each as quote_plus(k)=quote_plus(v), joined with "&"
RECURSIVE Urlencode(_)
Urlencode(params) ==
  IF params = <<>> THEN <<>>
  ELSE QuotePlus(Head(params).k) \o <<"=">> \o QuotePlus(Head(params).v)
       \o (IF Tail(params) = <<>> THEN <<>>
           ELSE <<"&">> \o Urlencode(Tail(params)))

\* query_params[k] = v when the condition of the assignment holds
Param(cond, k, v) == IF cond THEN <<[k |-> k, v |-> v]>> ELSE <<>>

\* the time mapping that guesses a bucket for 'any'
GoogleTbsGuessesAny(tr) ==
  CASE tr = "past_day" -> <<"q", "d", "r", ":", "d">>
    [] tr = "past_week" -> <<"q", "d", "r", ":", "w">>
    [] tr = "past_month" -> <<"q", "d", "r", ":", "m">>
    [] OTHER -> <<"q", "d", "r", ":", "y">>

\* ",".join(tbs_params) of GoogleEngine._build_search_url; <<>>: no entry
GoogleTbs(tr) ==
  CASE tr = "past_day" -> <<"q", "d", "r", ":", "d">>
    [] tr = "past_week" -> <<"q", "d", "r", ":", "w">>
    [] tr = "past_month" -> <<"q", "d", "r", ":", "m">>
    [] tr = "past_year" -> <<"q", "d", "r", ":", "y">>
    [] OTHER -> <<>>

\* the value of Google's "safe" parameter
GoogleSafe(ss) ==
  CASE ss = "on" -> <<"a", "c", "t", "i", "v", "e">>
    [] ss = "moderate" -> <<"i", "m", "a", "g", "e", "s">>
    [] ss = "off" -> <<"o", "f", "f">>

\* the value of DuckDuckGo's "df" parameter; <<>>: not set
DdgDf(tr) ==
  CASE tr = "past_day" -> <<"d">>
    [] tr = "past_week" -> <<"w">>
    [] tr = "past_month" -> <<"m">>
    [] tr = "past_year" -> <<"y">>
    [] OTHER -> <<>>

\* the value of DuckDuckGo's "kp" parameter
DdgKp(ss) ==
  CASE ss = "on" -> <<"-", "1">>
    [] ss = "off" -> <<"1">>
    [] ss = "moderate" -> <<"-", "2">>

\* query_params of GoogleEngine._build_search_url, in insertion order
GoogleParams(cfg, r, query, page_no) ==
  Param(TRUE, <<"q">>, query)
  \o Param(page_no > 0, <<"s", "t", "a", "r", "t">>,
           IntToStr(page_no * GoogleResultsPerPage))
  \o Param(cfg.language # <<>>, <<"h", "l">>, cfg.language)
  \o Param(cfg.language # <<>>, <<"l", "r">>,
           <<"l", "a", "n", "g", "_">> \o UpToDash(cfg.language))
  \o Param(cfg.region # <<>>, <<"g", "l">>, Upper(cfg.region))
  \o Param(r > 0, <<"n", "u", "m">>, IntToStr(r))
  \o Param(TRUE, <<"s", "a", "f", "e">>, GoogleSafe(cfg.safe_search))
  \o Param(GoogleTbs(cfg.time_range) # <<>>, <<"t", "b", "s">>,
           GoogleTbs(cfg.time_range))

\* query_params of DuckDuckGoEngine._build_search_url
DdgParams(cfg, r, query, page_no) ==
  Param(TRUE, <<"q">>, query)
  \o Param(cfg.region # <<>>, <<"k", "l">>,
           IF cfg.language # <<>>
             THEN Lower(cfg.region) \o <<"-">> \o Lower(UpToDash(cfg.language))
             ELSE Lower(cfg.region))
  \o Param(TRUE, <<"k", "p">>, DdgKp(cfg.safe_search))
  \o Param(DdgDf(cfg.time_range) # <<>>, <<"d", "f">>, DdgDf(cfg.time_range))
  \o Param(TRUE, <<"i", "a">>, <<"w", "e", "b">>)

\* query_params of BraveEngine._build_search_url
BraveParams(cfg, r, query, page_no) ==
  Param(TRUE, <<"q">>, query)
  \o Param(page_no > 0, <<"o", "f", "f", "s", "e", "t">>, IntToStr(page_no))
  \o Param(TRUE, <<"s", "o", "u", "r", "c", "e">>, <<"w", "e", "b">>)

\* base_url of each engine
BaseUrl(e) ==
  CASE e = "google" -> <<"https://www.google.com/search?">>
    [] e = "duckduckgo" -> <<"https://duckduckgo.com/?">>
    [] e = "brave" -> <<"https://search.brave.com/search?">>

\* _build_search_url(query, page_no) of the engine e configured with cfg and
\* num_results r
BuildSearchUrl(e, cfg, r, query, page_no) ==
  BaseUrl(e) \o Urlencode(
    CASE e = "google" -> GoogleParams(cfg, r, query, page_no)
      [] e = "duckduckgo" -> DdgParams(cfg, r, query, page_no)
      [] e = "brave" -> BraveParams(cfg, r, query, page_no))

\* no URL built, nothing printed, the process running
IdleCli ==
  /\ config = DefaultConfig
  /\ search_url = <<>>
  /\ printed = "none"
  /\ exit_status = -1

\* --------------------------------------------- the manager, called directly
\* The state of the search when no search runs (SpecMgr).
IdleSearch ==
  /\ registry = Engines
  /\ parser = IdleParser
  /\ parsed = <<>>
  /\ IdleCli
  /\ search_engine = "google"
  /\ num_results = 1
  /\ pc = "idle"
  /\ pages_needed = 1
  /\ pagesBound = FALSE
  /\ pages = <<>>
  /\ fate = [p \in PageIds |-> "none"]
  /\ task = [p \in PageIds |-> "none"]
  /\ loadsLeft = [p \in PageIds |-> 0]
  /\ page_results = [p \in PageIds |-> <<>>]
  /\ doneOrder = <<>>
  /\ released = {}
  /\ exc = "none"
  /\ web_results = <<>>
  /\ adapter_result = "none"
  /\ outcome = "none"

FreshManager ==
  /\ playwright = InitWorld.playwright
  /\ context = InitWorld.context
  /\ engineState = InitWorld.engineState
  /\ ctxState = InitWorld.ctxState
  /\ ctxEngine = InitWorld.ctxEngine
  /\ pageState = InitWorld.pageState
  /\ pageCtx = InitWorld.pageCtx
  /\ ctxCloseCalls = InitWorld.ctxCloseCalls
  /\ stopCalls = InitWorld.stopCalls
  /\ startsSinceClose = InitWorld.startsSinceClose
  /\ launchesSinceClose = InitWorld.launchesSinceClose
  /\ faults = InitWorld.faults
  /\ op = "init"
  /\ closesInRow = 0
  /\ mgr_exc = "none"
  /\ call_log = <<>>

InitMgr == FreshManager /\ IdleSearch

\* a caller awaits _ensure_playwright_and_browser (as __aenter__ does)
MgrEnsure ==
  \E f \in EnsureFaults(World) :
    /\ EnsureInBounds(World, f)
    /\ LET a == Ensure(World, f) IN
       SetWorld(a.w) /\ mgr_exc' = a.exc /\ call_log' = a.log
    /\ op' = "ensure"
    /\ closesInRow' = 0
    /\ UNCHANGED searchVars

\* a caller awaits get_pages(n)
MgrGetPages ==
  \E n \in 1..MaxAcquire : \E f \in EnsureFaults(World) : \E pf \in PageFaults(n) :
    /\ GetPagesInBounds(World, n, f, pf)
    /\ LET g == GetPages(World, n, f, pf) IN
       SetWorld(g.w) /\ mgr_exc' = g.exc /\ call_log' = g.log
    /\ op' = "get_pages"
    /\ closesInRow' = 0
    /\ UNCHANGED searchVars

\* a caller awaits close_page(p) on a page it was given
MgrClosePage ==
  \E p \in PageIds : \E cpf \in ClosePageFaults :
    /\ ClosePageInBounds(World, p, cpf)
    /\ SetWorld(ClosePage(World, p, cpf))
    /\ op' = "close_page"
    /\ closesInRow' = 0
    /\ mgr_exc' = "none"
    /\ call_log' = <<>>
    /\ UNCHANGED searchVars

\* a caller awaits close()
MgrClose ==
  \E cf \in CloseFaults :
    /\ CloseInBounds(World, cf)
    /\ SetWorld(Close(World, cf))
    /\ op' = "close"
    /\ closesInRow' = Min(closesInRow + 1, 2)
    /\ mgr_exc' = "none"
    /\ call_log' = <<>>
    /\ UNCHANGED searchVars

NextMgr == MgrEnsure \/ MgrGetPages \/ MgrClosePage \/ MgrClose

SpecMgr == InitMgr /\ [][NextMgr]_vars

\* ------------------------------------------------- the adapter's page fetches
\* The index i of a fetch is its place in `pages`; its page_no is i - 1.
TaskIds == 1..pages_needed

\* What a fetch would do with its page left alone: run to completion ("ok"),
\* or fail in its navigation, its "more results" interaction or its parse.
Fates(e, r) ==
  {"ok", "goto", "parse"} \cup
  (IF e = "duckduckgo" /\ (r - 1) \div DdgLoadSize > 0 THEN {"interact"} ELSE {})

\* num_loads of DuckDuckGoEngine._get_page_results; the base class has no loop
NumLoads(e, r) == IF e = "duckduckgo" THEN (r - 1) \div DdgLoadSize ELSE 0

\* The numbers of valid result blocks a loaded page may show: none, one, a
\* provider page's worth, or more than was asked for.
ValidBlockCounts(e, r) ==
  {0, 1, r + 1} \cup
  (CASE e = "google" -> {GoogleResultsPerPage}
     [] e = "brave" -> {BraveResultsPerPage}
     [] e = "duckduckgo" -> {DdgLoadSize})

\* parse: one item per valid block, positions from 1, at most num_results
ParseItems(i, blocks, r) ==
  [j \in 1..Min(blocks, r) |-> [page_no |-> i - 1, position |-> j]]

\* page.goto of _get_page_results
TaskGoto(i) ==
  /\ task[i] = "goto"
  /\ IF ~PageUsable(World, pages[i]) \/ fate[i] = "goto"
       THEN task' = [task EXCEPT ![i] = "failed"] /\ UNCHANGED loadsLeft
     ELSE IF NumLoads(search_engine, num_results) > 0
       THEN /\ task' = [task EXCEPT ![i] = "load"]
            /\ loadsLeft' = [loadsLeft EXCEPT
                               ![i] = NumLoads(search_engine, num_results)]
     ELSE task' = [task EXCEPT ![i] = "parse"] /\ UNCHANGED loadsLeft
  /\ UNCHANGED <<mgrVars, opVars, registry, parser, parsed, config, search_url,
                 printed, exit_status, search_engine,
                 num_results, pc, pages_needed,
                 pagesBound, pages, fate, page_results, doneOrder, released,
                 exc, web_results, adapter_result, outcome>>

\* one round of DuckDuckGoEngine._get_page_results' loop: wait for the
\* "more results" button, click it, scroll, wait for network idle
TaskLoadMore(i) ==
  /\ task[i] = "load"
  /\ IF ~PageUsable(World, pages[i]) \/ fate[i] = "interact"
       THEN task' = [task EXCEPT ![i] = "failed"] /\ UNCHANGED loadsLeft
     ELSE /\ loadsLeft' = [loadsLeft EXCEPT ![i] = @ - 1]
          /\ task' = [task EXCEPT ![i] = IF loadsLeft[i] = 1 THEN "parse" ELSE "load"]
  /\ UNCHANGED <<mgrVars, opVars, registry, parser, parsed, config, search_url,
                 printed, exit_status, search_engine,
                 num_results, pc, pages_needed,
                 pagesBound, pages, fate, page_results, doneOrder, released,
                 exc, web_results, adapter_result, outcome>>

\* _parse_results.  On a page that is gone, the wait for the root container
\* raises: the Brave and DuckDuckGo parsers return [] there, the Google parser
\* goes on to query the page, which raises.
TaskParse(i) ==
  /\ task[i] = "parse"
  /\ \/ /\ PageUsable(World, pages[i]) /\ fate[i] # "parse"
        /\ \E b \in ValidBlockCounts(search_engine, num_results) :
             page_results' = [page_results EXCEPT
                                ![i] = ParseItems(i, b, num_results)]
        /\ task' = [task EXCEPT ![i] = "done"]
        /\ doneOrder' = Append(doneOrder, i)
     \/ /\ PageUsable(World, pages[i]) /\ fate[i] = "parse"
        /\ task' = [task EXCEPT ![i] = "failed"]
        /\ UNCHANGED <<page_results, doneOrder>>
     \/ /\ ~PageUsable(World, pages[i]) /\ search_engine = "google"
        /\ task' = [task EXCEPT ![i] = "failed"]
        /\ UNCHANGED <<page_results, doneOrder>>
     \/ /\ ~PageUsable(World, pages[i]) /\ search_engine # "google"
        /\ task' = [task EXCEPT ![i] = "done"]
        /\ doneOrder' = Append(doneOrder, i)
        /\ UNCHANGED page_results
  /\ UNCHANGED <<mgrVars, opVars, registry, parser, parsed, config, search_url,
                 printed, exit_status, search_engine,
                 num_results, pc, pages_needed,
                 pagesBound, pages, fate, loadsLeft, released, exc, web_results,
                 adapter_result, outcome>>

\* ------------------------------------------------- BaseSearchEngine.search
\* gather as with return_exceptions: a failed fetch counts as returned
GatherResultSwallowing(ts, n) ==
  IF \A i \in 1..n : ts[i] \in {"done", "failed"} THEN "results" ELSE "pending"

\* what awaiting asyncio.gather(*page_results) gives: the first exception of
\* a fetch as soon as there is one, the results once every fetch has returned
GatherResult(ts, n) ==
  IF \E i \in 1..n : ts[i] = "failed" THEN "exception"
  ELSE IF \A i \in 1..n : ts[i] = "done" THEN "results"
  ELSE "pending"

\* the results in the order the fetches completed in
GatheredAsCompleted(res, n, order) == [i \in 1..n |-> res[order[i]]]

\* the list gather returns: one result per awaitable, in the order the
\* awaitables were passed in, whatever the order they completed in
Gathered(res, n, order) == [i \in 1..n |-> res[i]]

RECURSIVE Flatten(_)
\* [item for sublist in gathered_results for item in sublist]
Flatten(lists) ==
  IF lists = <<>> THEN <<>> ELSE Head(lists) \o Flatten(Tail(lists))

\* web_results of the SearchResults the adapter builds
Envelope(items, r) == items

\* Code outside SearchTool takes an entry out of the registry dict.  The
\* constructor registers every member of SearchEngine, so this is the only
\* way the lookup of search() can miss.
Unregister ==
  /\ pc = "start"
  /\ registry = Engines
  /\ \E e \in Engines : registry' = registry \ {e}
  /\ UNCHANGED <<mgrVars, opVars, parser, parsed, config, search_url,
                 printed, exit_status, search_engine, num_results,
                 pc, pages_needed, pagesBound, pages, fate, task, loadsLeft,
                 page_results, doneOrder, released, exc, web_results,
                 adapter_result, outcome>>

\* SearchTool.search up to `async with`: look the engine class up, raise if
\* there is none
SearchStart ==
  /\ pc = "start"
  /\ IF search_engine \in registry
       THEN pc' = "aenter" /\ UNCHANGED outcome
       ELSE pc' = "done" /\ outcome' = "SearchEngineError"
  /\ UNCHANGED <<mgrVars, opVars, registry, parser, parsed, config, search_url,
                 printed, exit_status, search_engine, num_results,
                 pages_needed, pagesBound, pages, fate, task, loadsLeft,
                 page_results, doneOrder, released, exc, web_results,
                 adapter_result>>

\* PlaywrightManager.__aenter__: a failure leaves the `async with` before its
\* body and without __aexit__
AEnter ==
  /\ pc = "aenter"
  /\ \E f \in EnsureFaults(World) :
       /\ EnsureInBounds(World, f)
       /\ LET a == Ensure(World, f) IN
          /\ SetWorld(a.w)
          /\ mgr_exc' = a.exc
          /\ call_log' = a.log
          /\ IF a.exc = "none"
               THEN pc' = "construct" /\ UNCHANGED outcome
               ELSE pc' = "done" /\ outcome' = a.exc
  /\ op' = "ensure"
  /\ closesInRow' = 0
  /\ UNCHANGED <<registry, parser, parsed, config, search_url,
                 printed, exit_status, search_engine, num_results, pages_needed, pagesBound, pages,
                 fate, task, loadsLeft, page_results, doneOrder, released, exc,
                 web_results, adapter_result>>

\* engine_class(config=..., playwright_manager=...)
Construct ==
  /\ pc = "construct"
  /\ pages_needed' = PagesNeeded(search_engine, num_results)
  /\ pc' = "get_pages"
  /\ UNCHANGED <<mgrVars, opVars, registry, parser, parsed, config, search_url,
                 printed, exit_status, search_engine,
                 num_results, pagesBound, pages,
                 fate, task, loadsLeft, page_results, doneOrder, released, exc,
                 web_results, adapter_result, outcome>>

\* the except clauses of search: a PlaywrightError or a ParsingError is
\* raised again as SearchEngineError; so is any other exception, after a read
\* of the loop variable `page`, which raises UnboundLocalError if the loop
\* never ran
AdapterCatch(e, pageBound) ==
  IF e \in {"PlaywrightError", "ParsingError"} \/ pageBound
    THEN "SearchEngineError"
    ELSE "UnboundLocalError"

\* pages = await get_pages(pages_needed), then one coroutine per page, handed
\* to asyncio.gather; an exception of get_pages goes through the except
\* clauses with `pages` and `page` never bound
AcquirePages ==
  /\ pc = "get_pages"
  /\ \E f \in EnsureFaults(World) : \E pf \in PageFaults(pages_needed) :
       /\ GetPagesInBounds(World, pages_needed, f, pf)
       /\ LET g == GetPages(World, pages_needed, f, pf) IN
          /\ mgr_exc' = g.exc
          /\ call_log' = g.log
          /\ IF g.exc = "none"
            THEN /\ \E ft \in [TaskIds -> Fates(search_engine, num_results)] :
                      LET bad == Cardinality({i \in TaskIds : ft[i] # "ok"}) IN
                      /\ g.w.faults + bad <= MaxFaults
                      /\ SetWorld([g.w EXCEPT !.faults = @ + bad])
                      /\ fate' = [p \in PageIds |->
                                    IF p \in TaskIds THEN ft[p] ELSE "none"]
                 /\ pages' = g.pages
                 /\ pagesBound' = TRUE
                 /\ task' = [p \in PageIds |->
                               IF p \in TaskIds THEN "goto" ELSE "none"]
                 /\ pc' = "gather"
                 /\ UNCHANGED exc
            ELSE /\ SetWorld(g.w)
                 /\ exc' = AdapterCatch(g.exc, FALSE)
                 /\ pc' = "finally"
                 /\ UNCHANGED <<pages, pagesBound, task, fate>>
  /\ op' = "get_pages"
  /\ closesInRow' = 0
  /\ UNCHANGED <<registry, parser, parsed, config, search_url,
                 printed, exit_status, search_engine, num_results, pages_needed, loadsLeft,
                 page_results, doneOrder, released, web_results, adapter_result,
                 outcome>>

\* gather returns: flatten and build the envelope
GatherReturn ==
  /\ pc = "gather"
  /\ GatherResult(task, pages_needed) = "results"
  /\ web_results' =
       Envelope(Flatten(Gathered(page_results, pages_needed, doneOrder)),
                num_results)
  /\ pc' = "finally"
  /\ UNCHANGED <<mgrVars, opVars, registry, parser, parsed, config, search_url,
                 printed, exit_status, search_engine,
                 num_results, pages_needed,
                 pagesBound, pages, fate, task, loadsLeft, page_results,
                 doneOrder, released, exc, adapter_result, outcome>>

\* gather raises the exception of a fetch (an Error of the browser library,
\* or what the parser raised), with `page` bound to the last page of the loop
GatherRaise ==
  /\ pc = "gather"
  /\ GatherResult(task, pages_needed) = "exception"
  /\ exc' = AdapterCatch("Error", TRUE)
  /\ pc' = "finally"
  /\ UNCHANGED <<mgrVars, opVars, registry, parser, parsed, config, search_url,
                 printed, exit_status, search_engine,
                 num_results, pages_needed,
                 pagesBound, pages, fate, task, loadsLeft, page_results,
                 doneOrder, released, web_results, adapter_result, outcome>>

\* the pages the finally clause has still to pass to close_page
ToRelease == {i \in 1..Len(pages) : pages[i] \notin released}

\* finally: `if pages:` with `pages` never bound raises UnboundLocalError,
\* which replaces the exception in flight
FinallyUnbound ==
  /\ pc = "finally"
  /\ ~pagesBound
  /\ exc' = "UnboundLocalError"
  /\ adapter_result' = "UnboundLocalError"
  /\ pc' = "handle"
  /\ UNCHANGED <<mgrVars, opVars, registry, parser, parsed, config, search_url,
                 printed, exit_status, search_engine,
                 num_results, pages_needed,
                 pagesBound, pages, fate, task, loadsLeft, page_results,
                 doneOrder, released, web_results, outcome>>

\* finally: await close_page(page) for the next page of `pages`
FinallyClosePage ==
  /\ pc = "finally"
  /\ pagesBound
  /\ ToRelease # {}
  /\ LET i == CHOOSE k \in ToRelease : \A m \in ToRelease : k <= m IN
     /\ \E cpf \in ClosePageFaults :
          /\ ClosePageInBounds(World, pages[i], cpf)
          /\ SetWorld(ClosePage(World, pages[i], cpf))
     /\ released' = released \cup {pages[i]}
  /\ op' = "close_page"
  /\ closesInRow' = 0
  /\ mgr_exc' = "none"
  /\ call_log' = <<>>
  /\ UNCHANGED <<registry, parser, parsed, config, search_url,
                 printed, exit_status, search_engine, num_results, pc, pages_needed, pagesBound,
                 pages, fate, task, loadsLeft, page_results, doneOrder, exc,
                 web_results, adapter_result, outcome>>

\* the finally clause is through: search returns the envelope or raises
FinallyEnd ==
  /\ pc = "finally"
  /\ pagesBound
  /\ ToRelease = {}
  /\ adapter_result' = IF exc = "none" THEN "envelope" ELSE exc
  /\ pc' = "handle"
  /\ UNCHANGED <<mgrVars, opVars, registry, parser, parsed, config, search_url,
                 printed, exit_status, search_engine,
                 num_results, pages_needed,
                 pagesBound, pages, fate, task, loadsLeft, page_results,
                 doneOrder, released, exc, web_results, outcome>>

\* ------------------------------------------------------- SearchTool.search
\* the orchestrator letting every exception of the adapter through
OrchestratorCatchReraises(e) == e

\* the except clauses around engine_instance.search: a SearchEngineError is
\* re-raised, any other exception is raised as SearchEngineError
OrchestratorCatch(e) ==
  IF e = "SearchEngineError" THEN e ELSE "SearchEngineError"

\* try: return await engine_instance.search(...)
Handle ==
  /\ pc = "handle"
  /\ exc' = IF adapter_result = "envelope" THEN "none"
            ELSE OrchestratorCatch(adapter_result)
  /\ pc' = "aexit"
  /\ UNCHANGED <<mgrVars, opVars, registry, parser, parsed, config, search_url,
                 printed, exit_status, search_engine,
                 num_results, pages_needed,
                 pagesBound, pages, fate, task, loadsLeft, page_results,
                 doneOrder, released, web_results, adapter_result, outcome>>

\* PlaywrightManager.__aexit__: close(), then the result reaches the caller
AExit ==
  /\ pc = "aexit"
  /\ \E cf \in CloseFaults :
       /\ CloseInBounds(World, cf)
       /\ SetWorld(Close(World, cf))
  /\ op' = "close"
  /\ closesInRow' = Min(closesInRow + 1, 2)
  /\ mgr_exc' = "none"
  /\ call_log' = <<>>
  /\ outcome' = IF exc = "none" THEN "envelope" ELSE exc
  /\ pc' = "done"
  /\ UNCHANGED <<registry, parser, parsed, config, search_url,
                 printed, exit_status, search_engine, num_results, pages_needed, pagesBound, pages,
                 fate, task, loadsLeft, page_results, doneOrder, released, exc,
                 web_results, adapter_result>>

\* --------------------------------------------------------- cli.run_search
\* The try statement around search(): what it prints for the result o of the
\* search, and whether an exception leaves run_search.  Every except clause
\* prints and falls through to the end of the function.
RunSearch(o, items) ==
  CASE o = "envelope" ->
         [printed |-> IF items # <<>> THEN "Search Results"
                      ELSE "No results found.",
          raised |-> FALSE]
    [] o = "SearchEngineError" ->
         [printed |-> "Search Engine Error", raised |-> FALSE]
    [] o = "ConfigurationError" ->
         [printed |-> "Configuration Error", raised |-> FALSE]
    [] OTHER -> [printed |-> "An unexpected error occurred", raised |-> FALSE]

\* main(): asyncio.run(run_search()) returns and the interpreter exits with
\* status 0, or an exception leaves it and the interpreter exits with 1
ExitStatus(raised) == IF raised THEN 1 ELSE 0

\* The search was called by run_search: print, close the tool in the finally
\* clause, return to main() and exit.
CliFinish ==
  /\ pc = "done"
  /\ \E cf \in CloseFaults :
       /\ CloseInBounds(World, cf)
       /\ SetWorld(Close(World, cf))
  /\ op' = "close"
  /\ closesInRow' = Min(closesInRow + 1, 2)
  /\ mgr_exc' = "none"
  /\ call_log' = <<>>
  /\ printed' = RunSearch(outcome, web_results).printed
  /\ exit_status' = ExitStatus(RunSearch(outcome, web_results).raised)
  /\ pc' = "exited"
  /\ UNCHANGED <<registry, parser, parsed, config, search_url, search_engine,
                 num_results, pages_needed, pagesBound, pages, fate, task,
                 loadsLeft, page_results, doneOrder, released, exc,
                 web_results, adapter_result, outcome>>

\* a SearchTool with its configuration, before search is called
Init ==
  /\ FreshManager
  /\ registry = Engines
  /\ parser = IdleParser
  /\ parsed = <<>>
  /\ IdleCli
  /\ search_engine \in Engines
  /\ num_results \in 1..MaxResults
  /\ pc = "start"
  /\ pages_needed = 1
  /\ pagesBound = FALSE
  /\ pages = <<>>
  /\ fate = [p \in PageIds |-> "none"]
  /\ task = [p \in PageIds |-> "none"]
  /\ loadsLeft = [p \in PageIds |-> 0]
  /\ page_results = [p \in PageIds |-> <<>>]
  /\ doneOrder = <<>>
  /\ released = {}
  /\ exc = "none"
  /\ web_results = <<>>
  /\ adapter_result = "none"
  /\ outcome = "none"

Fetch == \E i \in PageIds : TaskGoto(i) \/ TaskLoadMore(i) \/ TaskParse(i)

Next ==
  \/ Unregister \/ SearchStart \/ AEnter \/ Construct \/ AcquirePages
  \/ GatherReturn \/ GatherRaise
  \/ FinallyUnbound \/ FinallyClosePage \/ FinallyEnd
  \/ Handle \/ AExit \/ CliFinish
  \/ Fetch

Spec == Init /\ [][Next]_vars

\* ------------------------------------------------ parse, called on its own
\* A parser with its configuration, about to parse the first page.
InitParse ==
  /\ FreshManager
  /\ registry = Engines
  /\ search_engine \in Engines
  /\ num_results \in 1..ParseMaxResults
  /\ parser = [IdleParser EXCEPT !.phase = "wait"]
  /\ parsed = <<>>
  /\ IdleCli
  /\ pc = "idle"
  /\ pages_needed = 1
  /\ pagesBound = FALSE
  /\ pages = <<>>
  /\ fate = [p \in PageIds |-> "none"]
  /\ task = [p \in PageIds |-> "none"]
  /\ loadsLeft = [p \in PageIds |-> 0]
  /\ page_results = [p \in PageIds |-> <<>>]
  /\ doneOrder = <<>>
  /\ released = {}
  /\ exc = "none"
  /\ web_results = <<>>
  /\ adapter_result = "none"
  /\ outcome = "none"

ParseFrame ==
  UNCHANGED <<mgrVars, opVars, registry, config, search_url, printed,
              exit_status, search_engine, num_results, pc,
              pages_needed, pagesBound, pages, fate, task, loadsLeft,
              page_results, doneOrder, released, exc, web_results,
              adapter_result, outcome>>

\* await page.wait_for_selector(<root container>): the container shows, or
\* the wait times out.  On a timeout the Brave and DuckDuckGo parsers return
\* an empty list; the Google parser prints a warning and goes on.
ParseWait ==
  /\ parser.phase = "wait"
  /\ \E shown \in BOOLEAN :
       IF shown \/ search_engine = "google"
         THEN /\ parser' = [parser EXCEPT !.phase = "query",
                                          !.container = shown]
              /\ UNCHANGED parsed
         ELSE /\ parser' = [parser EXCEPT !.phase = "returned",
                                          !.container = shown]
              /\ parsed' = Append(parsed, <<>>)
  /\ ParseFrame

\* elements = await page.query_selector_all(...): n blocks match the
\* selector, which is rooted in the container; if none does, the Google and
\* DuckDuckGo parsers query again, Google for "div.g" anywhere on the page,
\* DuckDuckGo inside the container, and m blocks match.
ParseQuery ==
  /\ parser.phase = "query"
  /\ \E n, m \in 0..MaxBlocks :
       /\ ~parser.container => n = 0
       /\ n # 0 \/ search_engine = "brave" => m = 0
       /\ parser' = [parser EXCEPT !.phase = "loop", !.left = n + m]
  /\ UNCHANGED parsed
  /\ ParseFrame

\* the loop body on the next element
ParseBlock ==
  /\ parser.phase = "loop"
  /\ parser.left > 0
  /\ \E b \in Blocks(search_engine) :
       parser' = ParseStep(search_engine, num_results, parser, b)
  /\ UNCHANGED parsed
  /\ ParseFrame

\* return web_results_list
ParseReturn ==
  /\ parser.phase = "loop"
  /\ parser.left = 0
  /\ parser' = [parser EXCEPT !.phase = "returned"]
  /\ parsed' = Append(parsed, parser.web_results_list)
  /\ ParseFrame

\* the fetch of the next page calls parse on its page
ParseNextPage ==
  /\ parser.phase \in {"returned", "raised"}
  /\ Len(parsed) < MaxParsePages
  /\ parser' = [IdleParser EXCEPT !.phase = "wait"]
  /\ UNCHANGED parsed
  /\ ParseFrame

NextParse ==
  ParseWait \/ ParseQuery \/ ParseBlock \/ ParseReturn \/ ParseNextPage

SpecParse == InitParse /\ [][NextParse]_vars

\* --------------------------------------- _build_search_url, called on its own
\* An engine with its configuration, before it has built a URL.
InitUrl ==
  /\ FreshManager
  /\ registry = Engines
  /\ parser = IdleParser
  /\ parsed = <<>>
  /\ config \in [language : Languages, region : Regions,
                 safe_search : SafeSearch, time_range : TimeRange]
  /\ search_url = <<>>
  /\ printed = "none"
  /\ exit_status = -1
  /\ search_engine \in Engines
  /\ num_results \in 1..UrlMaxResults
  /\ pc = "idle"
  /\ pages_needed = 1
  /\ pagesBound = FALSE
  /\ pages = <<>>
  /\ fate = [p \in PageIds |-> "none"]
  /\ task = [p \in PageIds |-> "none"]
  /\ loadsLeft = [p \in PageIds |-> 0]
  /\ page_results = [p \in PageIds |-> <<>>]
  /\ doneOrder = <<>>
  /\ released = {}
  /\ exc = "none"
  /\ web_results = <<>>
  /\ adapter_result = "none"
  /\ outcome = "none"

\* search_url = await self._build_search_url(query, page_no)
BuildUrl ==
  /\ \E query \in Queries : \E page_no \in 0..MaxPageNo :
       search_url' =
         BuildSearchUrl(search_engine, config, num_results, query, page_no)
  /\ UNCHANGED <<mgrVars, opVars, registry, parser, parsed, config, printed,
                 exit_status, search_engine, num_results, pc, pages_needed,
                 pagesBound, pages, fate, task, loadsLeft, page_results,
                 doneOrder, released, exc, web_results, adapter_result,
                 outcome>>

NextUrl == BuildUrl

SpecUrl == InitUrl /\ [][NextUrl]_vars

\* ------------------------------------------------------------------ claims
\* BaseSearchEngine.search has returned or raised
AdapterFinished == adapter_result # "none"

\* the page handles created so far
Created == {p \in PageIds : pageState[p] # "unborn"}

\* ceil(r / k), from its definition
Ceil(r, k) == CHOOSE n \in 0..r : n * k >= r /\ (n - 1) * k < r

\* the results-per-page constant the specification gives each provider
SpecResultsPerPage(e) ==
  CASE e = "google" -> 10 [] e = "brave" -> 20 [] e = "duckduckgo" -> 1

\* C1: the envelope a search returns holds at most num_results items,
\* whatever the pages yield.
C1_ItemsWithinRequested ==
  adapter_result = "envelope" => Len(web_results) <= num_results

\* C2: in the envelope of a successful search the items are ordered by
\* (page index, in-page position), whatever order the fetches completed in.
C2_OrderedByPageThenPosition ==
  adapter_result = "envelope" =>
    \A a, b \in 1..Len(web_results) :
      a < b =>
        \/ web_results[a].page_no < web_results[b].page_no
        \/ /\ web_results[a].page_no = web_results[b].page_no
           /\ web_results[a].position < web_results[b].position

\* an envelope with items of two pages, the later page fetched first
C2_Witness ==
  /\ adapter_result = "envelope"
  /\ Len(doneOrder) >= 2
  /\ doneOrder[1] > doneOrder[2]
  /\ page_results[doneOrder[1]] # <<>>
  /\ page_results[doneOrder[2]] # <<>>

\* C3: every page handle created during an adapter search has been passed to
\* close_page when the search returns or raises.
C3_EveryHandleReleased ==
  AdapterFinished => Created \subseteq released

\* C4 as stated: the adapter acquires ceil(r / k) page handles, with k = 10,
\* 20 and, for the provider that paginates in the page, 1.
C4_PagesCeilOfSpecK ==
  pagesBound => Len(pages) = Ceil(num_results, SpecResultsPerPage(search_engine))

\* C4 as amended: Google and Brave ask for ceil(r / k) page handles (k = 10,
\* k = 20) and hold that many once acquired; DuckDuckGo asks for one handle
\* whatever r is, and loads (r - 1) div 10 further rounds in that page.
C4_PagesPerProvider ==
  LET expected ==
        CASE search_engine = "google" -> Ceil(num_results, 10)
          [] search_engine = "brave" -> Ceil(num_results, 20)
          [] search_engine = "duckduckgo" -> 1
  IN /\ pc \in {"get_pages", "gather", "finally", "handle"} =>
          pages_needed = expected
     /\ pagesBound => Len(pages) = expected /\ Cardinality(Created) = expected
     /\ \A i \in PageIds :
          task[i] = "load" =>
            /\ search_engine = "duckduckgo"
            /\ loadsLeft[i] \in 1..((num_results - 1) \div 10)

\* DuckDuckGo, asked for more than 20 results, holding the one page it
\* acquired
C4_Witness ==
  /\ pagesBound
  /\ search_engine = "duckduckgo"
  /\ num_results > 20
  /\ Len(pages) = 1

\* C5: the adapter returns an envelope only if every page fetch completed
\* without error; otherwise it raises and no items reach the caller.
C5_EnvelopeOnlyIfAllFetched ==
  /\ adapter_result = "envelope" => \A i \in TaskIds : task[i] = "done"
  /\ (AdapterFinished /\ \E i \in TaskIds : task[i] = "failed") =>
       /\ adapter_result = "SearchEngineError"
       /\ web_results = <<>>

\* the search raised although a sibling page had delivered items
C5_Witness ==
  /\ adapter_result = "SearchEngineError"
  /\ \E i, j \in TaskIds :
       task[i] = "failed" /\ task[j] = "done" /\ page_results[j] # <<>>

\* C6: a fetch that would succeed left alone is not made to fail by the
\* failure of a sibling.
C6_SiblingsUnaffected ==
  \A i \in PageIds : fate[i] = "ok" => task[i] # "failed"

\* C7: a close_page that closes an open page calls the context's close if and
\* only if that page was the last open page under the context.
C7_ContextClosedIffLastPage ==
  [][\A p \in PageIds :
       (op' = "close_page" /\ pageState[p] = "open" /\ pageState'[p] = "closed")
         => LET c == pageCtx[p] IN
            /\ (ctxCloseCalls'[c] = ctxCloseCalls[c] + 1) <=> (CtxPages(World, c) = {p})
            /\ ctxCloseCalls'[c] \in {ctxCloseCalls[c], ctxCloseCalls[c] + 1}
            /\ \A d \in ContextIds \ {c} : ctxCloseCalls'[d] = ctxCloseCalls[d]
            /\ (CtxPages(World, c) # {p} => ctxState'[c] = "open")]_vars

\* close_page has just closed the context the manager holds, after an
\* earlier close_page of a page under it had left it open
C7_Witness ==
  /\ op = "close_page"
  /\ context # 0
  /\ ctxState[context] = "closed"
  /\ ctxCloseCalls[context] = 1
  /\ Cardinality({p \in PageIds : pageCtx[p] = context /\ pageState[p] = "closed"}) >= 2

\* C8: a close() right after a close(), and a close() on a manager never
\* initialized, closes no context, stops no engine and leaves the manager
\* uninitialized.
C8_CloseIdempotent ==
  [][(op' = "close" /\ op \in {"close", "init"}) =>
       /\ UNCHANGED mgrVars
       /\ playwright' = 0
       /\ context' = 0]_vars

\* two close() calls in a row on a manager that had started an engine and
\* opened a context
C8_Witness ==
  /\ closesInRow = 2
  /\ \E e \in EngineIds : engineState[e] = "down"
  /\ \E c \in ContextIds : ctxState[c] = "closed"

\* C9 as stated: between two close() calls the engine is started at most
\* once and the context launched at most once.
C9_StartedAtMostOnce ==
  startsSinceClose <= 1 /\ launchesSinceClose <= 1

\* C9 as amended: a call of _ensure_playwright_and_browser, direct or from
\* get_pages, starts no engine while an engine handle is held and launches no
\* context while a context handle is held, so on a ready manager it changes
\* nothing; between two close() calls the context is launched at most once.
\* The engine is started again after a failed context setup has stopped it.
C9_EnsureIdempotent ==
  /\ [][op' \in {"ensure", "get_pages"} =>
          /\ playwright # 0 =>
               /\ startsSinceClose' = startsSinceClose
               /\ Unborn(engineState') = Unborn(engineState)
          /\ context # 0 =>
               /\ launchesSinceClose' = launchesSinceClose
               /\ ctxState' = ctxState
          /\ (playwright # 0 /\ context # 0 /\ op' = "ensure") =>
               UNCHANGED mgrVars]_vars
  /\ [](launchesSinceClose <= 1)

\* _ensure_playwright_and_browser called on a ready manager that has already
\* handed out a page of its context
C9_Witness ==
  /\ op = "ensure"
  /\ playwright # 0
  /\ context # 0
  /\ startsSinceClose = 1
  /\ \E p \in PageIds : pageCtx[p] = context /\ pageState[p] = "open"

\* C10: over a whole search the close of every context the manager opened is
\* invoked exactly once.
C10_ContextClosedExactlyOnce ==
  pc = "done" =>
    \A c \in ContextIds : ctxState[c] # "unborn" => ctxCloseCalls[c] = 1

\* SearchTool.search has returned or raised
SearchOver == pc = "done"

\* C11: whenever SearchTool.search returns or raises, the manager holds no
\* engine handle and no context handle, and no context is left open.
C11_ManagerUninitializedAfterSearch ==
  SearchOver =>
    /\ playwright = 0
    /\ context = 0
    /\ \A c \in ContextIds : ~CtxUsable(World, c)

\* C12: every failure of BaseSearchEngine.search reaches its caller as a
\* SearchEngineError, a failure of get_pages included.
C12_AdapterRaisesOnlySearchEngineError ==
  AdapterFinished => adapter_result \in {"envelope", "SearchEngineError"}

\* __aenter__ raised PlaywrightError: the search ended before its body
SessionErrorOnEnter ==
  SearchOver /\ op = "ensure" /\ mgr_exc = "PlaywrightError"

\* get_pages raised inside the adapter, which has since finished
SessionErrorInAdapter == SearchOver /\ AdapterFinished /\ ~pagesBound

\* C13 as stated: a PlaywrightError of the manager reaches the caller of
\* SearchTool.search as a PlaywrightError, raised on entering the session or
\* on acquiring pages inside the adapter alike, and a SearchEngineError of
\* the adapter reaches the caller as SearchEngineError.
C13_SessionErrorKept ==
  /\ SessionErrorOnEnter => outcome = "PlaywrightError"
  /\ SessionErrorInAdapter => outcome = "PlaywrightError"
  /\ (SearchOver /\ adapter_result = "SearchEngineError") =>
       outcome = "SearchEngineError"

\* C13 as amended: a PlaywrightError raised on entering the session reaches
\* the caller as PlaywrightError; a failure of get_pages inside the adapter
\* reaches the caller as SearchEngineError; a SearchEngineError of the
\* adapter reaches the caller as SearchEngineError.
C13_SessionErrorKeptOnEnterOnly ==
  /\ SessionErrorOnEnter => outcome = "PlaywrightError"
  /\ SessionErrorInAdapter => outcome = "SearchEngineError"
  /\ (SearchOver /\ adapter_result = "SearchEngineError") =>
       outcome = "SearchEngineError"

\* a search whose get_pages failed on creating a page, after its session had
\* been entered, and which has reached its caller
C13_Witness ==
  /\ SessionErrorInAdapter
  /\ playwright = 0
  /\ \E e \in EngineIds : engineState[e] = "down"
  /\ outcome = "SearchEngineError"

\* C14: every failure that escapes SearchTool.search is a ConfigurationError,
\* a PlaywrightError or a SearchEngineError.
C14_ClosedTaxonomy ==
  SearchOver =>
    outcome \in {"envelope", "ConfigurationError", "PlaywrightError",
                 "SearchEngineError"}

\* C15: a search for a provider the registry has no entry for fails with
\* ConfigurationError, before the manager starts an engine or launches a
\* context.
C15_UnregisteredIsConfigurationError ==
  (SearchOver /\ search_engine \notin registry) =>
    /\ outcome = "ConfigurationError"
    /\ Unborn(engineState) = EngineIds
    /\ Unborn(ctxState) = ContextIds

\* C19: a DuckDuckGo fetch whose wait for the "more results" control times
\* out in some round does not fail: it goes on to the extraction.
C19_LoadLoopStopsEarly ==
  \A i \in PageIds : fate[i] = "interact" => task[i] # "failed"

\* the steps of call_log that are engine starts, and those that are installs
StartSteps == {k \in 1..Len(call_log) : call_log[k] \in {"start_ok", "start_fail"}}
InstallSteps ==
  {k \in 1..Len(call_log) : call_log[k] \in {"install_ok", "install_fail"}}

\* C20: a call of _ensure_playwright_and_browser attempts the engine start at
\* most twice and the install at most once; a failed first start is followed
\* by one install and, the install done, by one more start; if the install
\* or that start fails the call raises PlaywrightError and the manager holds
\* no engine handle.
C20_OneSelfHealOneRetry ==
  op \in {"ensure", "get_pages"} =>
    /\ Cardinality(StartSteps) <= 2
    /\ Cardinality(InstallSteps) <= 1
    /\ (call_log # <<>> /\ call_log[1] = "start_fail") =>
         /\ InstallSteps = {2}
         /\ IF call_log[2] = "install_ok"
              THEN StartSteps = {1, 3}
              ELSE StartSteps = {1}
         /\ (call_log[2] = "install_fail" \/ call_log[3] = "start_fail") =>
              /\ Len(call_log) = Cardinality(StartSteps) + 1
              /\ mgr_exc = "PlaywrightError"
              /\ playwright = 0

\* a call whose first start failed, whose install went through and whose
\* second start failed
C20_Witness ==
  /\ op = "ensure"
  /\ call_log = <<"start_fail", "install_ok", "start_fail">>
  /\ mgr_exc = "PlaywrightError"
  /\ playwright = 0

\* C16: in every provider's parse a block with a missing or empty title, or
\* with a missing or invalid URL, yields no item, raises nothing and does not
\* stop the loop: the items emitted so far are as many as the valid blocks
\* looked at, up to num_results, and each has a title and a valid URL.
C16_InvalidBlocksDropped ==
  /\ parser.phase # "raised"
  /\ Len(parser.web_results_list) = Min(parser.valid, num_results)
  /\ \A j \in 1..Len(parser.web_results_list) :
       /\ parser.web_results_list[j].title = "ok"
       /\ HttpUrlValid(parser.web_results_list[j].url)

\* C17: for every provider, when the wait for the root container timed out,
\* parse looks at no block, raises nothing and returns an empty list.
C17_NoContainerNoResults ==
  (parser.phase \notin {"idle", "wait"} /\ ~parser.container) =>
    /\ parser.enumerated = 0
    /\ parser.phase # "raised"
    /\ parser.web_results_list = <<>>

\* the positions of a list of items, and the positions 1..m
PositionsOf(items) == [j \in 1..Len(items) |-> items[j].position]
Counting(m) == [j \in 1..m |-> j]

\* C18: the positions of the items parse emits for a page are 1, 2, ..., m in
\* emission order, whatever blocks were dropped in between, on every page
\* anew; the flattened list of the pages keeps these per-page positions.
C18_PositionsPerPage ==
  /\ PositionsOf(parser.web_results_list) =
       Counting(Len(parser.web_results_list))
  /\ \A k \in 1..Len(parsed) : PositionsOf(parsed[k]) = Counting(Len(parsed[k]))
  /\ PositionsOf(Flatten(parsed)) =
       Flatten([k \in 1..Len(parsed) |-> Counting(Len(parsed[k]))])

\* two pages parsed, two items or more from each, the second page with
\* blocks that were dropped and without reaching num_results
C18_Witness ==
  /\ Len(parsed) = 2
  /\ parser.phase = "returned"
  /\ Len(parsed[1]) >= 2
  /\ Len(parsed[2]) >= 2
  /\ Len(parsed[2]) < num_results
  /\ parser.enumerated > Len(parsed[2])

\* C23: whichever of the context close and the engine stop fail, a call of
\* close() attempts the close of the context it holds and the stop of the
\* engine it holds, and ends with both handles cleared.
C23_CloseBlocksIndependent ==
  [][op' = "close" =>
       /\ playwright' = 0
       /\ context' = 0
       /\ mgr_exc' = "none"
       /\ context # 0 => ctxCloseCalls'[context] = ctxCloseCalls[context] + 1
       /\ stopCalls' = stopCalls + (IF playwright # 0 THEN 1 ELSE 0)]_vars

\* close() has returned after both its context close and its engine stop
\* failed: the context and the engine are still up, the handles are gone
C23_Witness ==
  /\ op = "close"
  /\ faults = 2
  /\ playwright = 0
  /\ context = 0
  /\ \E c \in ContextIds : CtxUsable(World, c) /\ ctxCloseCalls[c] = 1
  /\ stopCalls = 1

\* C24: between manager operations the manager holds a context handle only
\* if it holds an engine handle.
C24_ContextImpliesEngine ==
  context # 0 => playwright # 0

\* C25: the adapter's cleanup closes a page only after the fetch that owns it
\* has finished.
C25_ClosedAfterFetchFinished ==
  \A i \in 1..Len(pages) :
    pages[i] \in released => task[i] \in {"done", "failed"}

\* C26: a get_pages(n) on a manager whose context was closed by the release
\* of its last page, with no browser failure during the call, obtains an
\* open context and returns its pages.
C26_GetPagesAfterLastPageReleased ==
  [][(/\ op' = "get_pages"
      /\ faults' = faults
      /\ playwright # 0
      /\ context # 0
      /\ ctxState[context] = "closed") =>
       /\ mgr_exc' = "none"
       /\ CtxUsable(World', context')]_vars

\* C22: when the search run from the command line fails with a configuration
\* error or an engine error the process prints a message and exits with a
\* non-zero status; it exits with status zero only when the search succeeded.
C22_NonZeroExitOnFailure ==
  pc = "exited" =>
    /\ outcome \in {"ConfigurationError", "SearchEngineError"} =>
         printed # "none" /\ exit_status # 0
    /\ exit_status = 0 => outcome = "envelope"

\* What the receiver of a URL reads from it: the query string split at "&",
\* each part split at its first "=", both sides unquoted.
RECURSIVE Before(_, _)
Before(str, sep) ==
  IF str = <<>> \/ Head(str) = sep THEN <<>>
  ELSE <<Head(str)>> \o Before(Tail(str), sep)

RECURSIVE After(_, _)
After(str, sep) ==
  IF str = <<>> THEN <<>>
  ELSE IF Head(str) = sep THEN Tail(str)
  ELSE After(Tail(str), sep)

RECURSIVE SplitOn(_, _)
SplitOn(str, sep) ==
  IF str = <<>> THEN <<>>
  ELSE <<Before(str, sep)>> \o SplitOn(After(str, sep), sep)

RECURSIVE UnquotePlus(_)
UnquotePlus(str) ==
  IF str = <<>> THEN <<>>
  ELSE IF Head(str) = "+" THEN <<" ">> \o UnquotePlus(Tail(str))
  ELSE IF Head(str) = "%" /\ Len(str) >= 3
    THEN LET code == <<str[2], str[3]>>
             ch == CASE code = <<"3", "A">> -> ":"
                     [] code = <<"2", "6">> -> "&"
                     [] code = <<"3", "D">> -> "="
                     [] code = <<"2", "B">> -> "+"
                     [] code = <<"2", "5">> -> "%"
                     [] OTHER -> "?"
         IN <<ch>> \o UnquotePlus(SubSeq(str, 4, Len(str)))
  ELSE <<Head(str)>> \o UnquotePlus(Tail(str))

ParseQs(url) ==
  LET parts == SplitOn(Tail(url), "&") IN
  [k \in 1..Len(parts) |->
     [k |-> UnquotePlus(Before(parts[k], "=")),
      v |-> UnquotePlus(After(parts[k], "="))]]

\* the values the URL carries for the parameter named key, as a sequence
ValuesOf(url, key) ==
  LET sel == SelectSeq(ParseQs(url), LAMBDA x : x.k = key) IN
  [k \in 1..Len(sel) |-> sel[k].v]

\* the bucket letter of a time range
Bucket(tr) ==
  CASE tr = "past_day" -> "d" [] tr = "past_week" -> "w"
    [] tr = "past_month" -> "m" [] tr = "past_year" -> "y"

\* C21: a URL an engine builds carries a time-range or safe-search parameter
\* only where the provider has a mapping: none for time range 'any' and none
\* at all for Brave; for a day, week, month or year range exactly Google's
\* tbs=qdr:<bucket> or DuckDuckGo's df=<bucket>; for safe search on and off
\* Google's safe=active / safe=off and DuckDuckGo's kp=-1 / kp=1.  The query
\* text adds no parameter.
C21_FiltersMappedOrOmitted ==
  search_url # <<>> =>
    LET tbs == ValuesOf(search_url, <<"t", "b", "s">>)
        df == ValuesOf(search_url, <<"d", "f">>)
        safe == ValuesOf(search_url, <<"s", "a", "f", "e">>)
        kp == ValuesOf(search_url, <<"k", "p">>)
        tr == config.time_range
        ss == config.safe_search
    IN /\ tbs = IF search_engine = "google" /\ tr # "any"
                  THEN << <<"q", "d", "r", ":", Bucket(tr)>> >>
                  ELSE <<>>
       /\ df = IF search_engine = "duckduckgo" /\ tr # "any"
                 THEN << <<Bucket(tr)>> >>
                 ELSE <<>>
       /\ search_engine # "google" => safe = <<>>
       /\ search_engine # "duckduckgo" => kp = <<>>
       /\ (search_engine = "google" /\ ss = "on") =>
            safe = << <<"a", "c", "t", "i", "v", "e">> >>
       /\ (search_engine = "google" /\ ss = "off") =>
            safe = << <<"o", "f", "f">> >>
       /\ (search_engine = "duckduckgo" /\ ss = "on") => kp = << <<"-", "1">> >>
       /\ (search_engine = "duckduckgo" /\ ss = "off") => kp = << <<"1">> >>

\* Google's URL for a week range with safe search on, built for a query that
\* itself spells out a time parameter
C21_Witness ==
  /\ search_engine = "google"
  /\ config.time_range = "past_week"
  /\ config.safe_search = "on"
  /\ search_url # <<>>
  /\ ParseQs(search_url)[1].v = <<"t", "b", "s", "=", "q", "d", "r", ":", "d">>

====
